---- MODULE Spec2Model ----
(***************************************************************************)
(* A model of k8s_snapshots/backends/google.py: the configuration          *)
(* validation gate (validate_config) and the snapshot client with its      *)
(* two-phase status poll (create_snapshot, get_snapshot_status) against a  *)
(* remote compute service holding zone operations and snapshot resources.  *)
(*                                                                         *)
(* The strings validate_config inspects are sequences of one-character     *)
(* strings; names, labels of volumes and statuses, which the code only     *)
(* compares and passes on, are strings.                                    *)
(***************************************************************************)
EXTENDS Integers, Sequences, FiniteSets, TLC

VARIABLES
    config,      \* the three validated keys of the backend configuration
    now,         \* the instant pendulum.now('utc') returns
    validation,  \* the validate_config invocation: pc, is_valid, reports, outcome
    creds,       \* the credential fields of ctx.config and the ambient default
    operations,  \* remote: zone operation name -> [status, zone, target] or NoOperation
    snapshots,   \* remote: snapshot name -> provider status or Absent
    handles,     \* the NewSnapshotIdentifier values create_snapshot has returned
    call,        \* the invocation in progress (one caller, blocking calls)
    doneSeen,    \* handles for which a finished poll has observed the operation DONE
    labelling,   \* remote: snapshot name -> [labels, labelFingerprint]
    deleted,     \* snapshot names a delete_snapshot call has deleted
    volume,      \* the PersistentVolume handed to the volume functions
    volumeCall   \* the get_disk_identifier or supports_volume invocation

vars == <<config, now, validation, creds, operations, snapshots, handles, call,
          doneSeen, labelling, deleted, volume, volumeCall>>

validateVars == <<config, now, validation>>
clientVars == <<creds, operations, snapshots, handles, call, doneSeen, labelling,
               deleted>>
volumeVars == <<volume, volumeCall>>

\* What the snapshot client leaves alone.
nonClientVars == <<validateVars, volumeVars>>

----------------------------------------------------------------------------
(* Characters and the str methods validate_config uses.                    *)

LowerChars == {"a", "b", "c", "d", "e", "f", "g", "h", "i", "j", "k", "l", "m",
               "n", "o", "p", "q", "r", "s", "t", "u", "v", "w", "x", "y", "z"}

UpperChars == {"A", "B", "C", "D", "E", "F", "G", "H", "I", "J", "K", "L", "M",
               "N", "O", "P", "Q", "R", "S", "T", "U", "V", "W", "X", "Y", "Z"}

DigitChars == {"0", "1", "2", "3", "4", "5", "6", "7", "8", "9"}

\* A letter without case (the CJK ideograph U+4E2D): \w and isalpha() accept
\* it, and islower() does not count it as a cased character.
Ideograph == "U+4E2D"

UncasedLetters == {Ideograph}

Newline == "\n"

\* str.isalpha() of one character.
IsAlpha(c) == c \in LowerChars \cup UpperChars \cup UncasedLetters

\* The class \w of a str pattern: letters, digits and the underscore.
IsWordChar(c) == IsAlpha(c) \/ c \in DigitChars \/ c = "_"

\* str.islower(): no cased character is uppercase and there is at least one
\* cased character.
StrIsLower(s) ==
    /\ \A i \in 1..Len(s) : s[i] \notin UpperChars
    /\ \E i \in 1..Len(s) : s[i] \in LowerChars

\* What "$" allows at the end of a pattern matched without re.MULTILINE: the
\* end of the string, or the position before one final newline.
DollarCandidates(s) ==
    {s} \cup (IF Len(s) > 0 /\ s[Len(s)] = Newline
              THEN {SubSeq(s, 1, Len(s) - 1)}
              ELSE {})

----------------------------------------------------------------------------
(* The two regular expressions.                                            *)

\* The repetition bound of [-a-z0-9]{0,61} in GOOGLE_SNAPSHOT_NAME_REGEX.
NameMiddleMax == 61

\* The repetition bound of [-\w]{0,63} in GOOGLE_LABEL_REGEX.
LabelMaxLen == 63

\* [-a-z0-9]
IsNameChar(c) == c \in LowerChars \cup DigitChars \cup {"-"}

\* [a-z](?:[-a-z0-9]{0,61}[a-z0-9])? against the whole of b.
NameBodyMatch(b) ==
    /\ Len(b) >= 1
    /\ b[1] \in LowerChars
    /\ \/ Len(b) = 1
       \/ /\ Len(b) - 2 <= NameMiddleMax
          /\ \A i \in 2..(Len(b) - 1) : IsNameChar(b[i])
          /\ b[Len(b)] \in LowerChars \cup DigitChars

\* Allows uppercase letters wherever the regex allows lowercase ones.
NameRegexMatchAnyCase(s) ==
    \E b \in DollarCandidates(s) :
        /\ Len(b) >= 1
        /\ b[1] \in LowerChars \cup UpperChars
        /\ \/ Len(b) = 1
           \/ /\ Len(b) - 2 <= NameMiddleMax
              /\ \A i \in 2..(Len(b) - 1) : IsNameChar(b[i]) \/ b[i] \in UpperChars
              /\ b[Len(b)] \in LowerChars \cup UpperChars \cup DigitChars

\* re.match(GOOGLE_SNAPSHOT_NAME_REGEX, s) is not None
NameRegexMatch(s) == \E b \in DollarCandidates(s) : NameBodyMatch(b)

\* re.match(GOOGLE_LABEL_REGEX, s) is not None
LabelRegexMatch(s) ==
    \E b \in DollarCandidates(s) :
        /\ Len(b) <= LabelMaxLen
        /\ \A i \in 1..Len(b) : b[i] = "-" \/ IsWordChar(b[i])

----------------------------------------------------------------------------
(* pendulum.now('utc').format(fmt): the classic (strftime) formatter.  A   *)
(* format is a sequence of tokens, each a literal character or one of the  *)
(* directives below.                                                       *)

Directives == {"%Y", "%d", "%b", "%p"}

Digit(n) == <<"0", "1", "2", "3", "4", "5", "6", "7", "8", "9">>[n + 1]

Pad2(n) == <<Digit((n \div 10) % 10), Digit(n % 10)>>

Pad4(n) == <<Digit((n \div 1000) % 10), Digit((n \div 100) % 10)>> \o Pad2(n % 100)

MonthAbbr(m) ==
    <<<<"J", "a", "n">>, <<"F", "e", "b">>, <<"M", "a", "r">>, <<"A", "p", "r">>,
      <<"M", "a", "y">>, <<"J", "u", "n">>, <<"J", "u", "l">>, <<"A", "u", "g">>,
      <<"S", "e", "p">>, <<"O", "c", "t">>, <<"N", "o", "v">>, <<"D", "e", "c">>>>[m]

RenderToken(t, tok) ==
    CASE tok = "%Y" -> Pad4(t.year)
      [] tok = "%d" -> Pad2(t.day)
      [] tok = "%b" -> MonthAbbr(t.month)
      [] tok = "%p" -> IF t.hour < 12 THEN <<"A", "M">> ELSE <<"P", "M">>
      [] OTHER -> <<tok>>

RECURSIVE PendulumFormat(_, _)
PendulumFormat(t, fmt) ==
    IF fmt = <<>> THEN <<>>
    ELSE RenderToken(t, Head(fmt)) \o PendulumFormat(t, Tail(fmt))

----------------------------------------------------------------------------
(* validate_config                                                         *)

\* 'dummy-snapshot-'
DummyPrefix ==
    <<"d", "u", "m", "m", "y", "-", "s", "n", "a", "p", "s", "h", "o", "t", "-">>

\* f'dummy-snapshot-{test_datetime}'
TestSnapshotName(cfg, t) ==
    DummyPrefix \o PendulumFormat(t, cfg.snapshot_datetime_format)

glabel_key_keys == {"snapshot_author_label"}

glabel_value_keys == {"snapshot_author_label_key"}

\* The orders in which the for loop may visit glabel_key_keys | glabel_value_keys
\* (the iteration order of a set of str is not fixed).
LoopOrders ==
    {o \in [1..Cardinality(glabel_key_keys \cup glabel_value_keys)
                -> glabel_key_keys \cup glabel_value_keys] :
        \A i, j \in DOMAIN o : i # j => o[i] # o[j]}

\* The validity expression without the call of islower().
IsGlabelValidNoLower(value, is_glabel_key) ==
    IF LabelRegexMatch(value)
    THEN IF Len(value) = 0 THEN "IndexError"
         ELSE IF IsAlpha(value[1]) THEN "True"
         ELSE IF ~is_glabel_key THEN "True" ELSE "False"
    ELSE IF ~is_glabel_key THEN "True" ELSE "False"

\* re_match and value.islower() and value[0].isalpha() or not is_glabel_key,
\* as Python groups and short-circuits it: ((a and b and c) or d).  value[0]
\* is evaluated only after re_match and islower() were truthy, and raises
\* IndexError on the empty string.
IsGlabelValid(value, is_glabel_key) ==
    IF LabelRegexMatch(value) /\ StrIsLower(value)
    THEN IF Len(value) = 0 THEN "IndexError"
         ELSE IF IsAlpha(value[1]) THEN "True"
         ELSE IF ~is_glabel_key THEN "True" ELSE "False"
    ELSE IF ~is_glabel_key THEN "True" ELSE "False"

\* The body of the for loop over the remaining keys; st is the local state
\* [is_valid, reports, raised] of validate_config.
RECURSIVE LabelLoop(_, _, _)
LabelLoop(cfg, order, st) ==
    IF order = <<>> \/ st.raised # "none" THEN st
    ELSE LET key == Head(order)
             value == cfg[key]
             is_glabel_key == key \in glabel_key_keys
             is_glabel_valid == IsGlabelValid(value, is_glabel_key)
         IN  LabelLoop(cfg, Tail(order),
                 CASE is_glabel_valid = "IndexError" ->
                        [st EXCEPT !.raised = "IndexError"]
                   [] is_glabel_valid = "False" ->
                        [st EXCEPT !.is_valid = "False",
                                   !.reports = Append(@,
                                       [key |-> key, value |-> value,
                                        regex |-> "GOOGLE_LABEL_REGEX"])]
                   [] OTHER -> st)

\* The local state after the snapshot name check.  is_valid is assigned only
\* on a violation: it is unbound until then.
AfterNameCheck(cfg, t) ==
    IF ~NameRegexMatch(TestSnapshotName(cfg, t))
    THEN [is_valid |-> "False",
          reports |-> <<[key |-> "snapshot_datetime_format",
                         value |-> TestSnapshotName(cfg, t),
                         regex |-> "GOOGLE_SNAPSHOT_NAME_REGEX"]>>,
          raised |-> "none"]
    ELSE [is_valid |-> "unbound", reports |-> <<>>, raised |-> "none"]

\* validate_config(config) with the clock at t and the loop visiting the keys
\* in the given order: what it logged and how it ended.
RunValidateConfig(cfg, t, order) ==
    LET st == LabelLoop(cfg, order, AfterNameCheck(cfg, t))
    IN  [pc |-> "done",
         reports |-> st.reports,
         outcome |-> IF st.raised # "none" THEN st.raised
                     ELSE IF st.is_valid = "unbound" THEN "UnboundLocalError"
                     ELSE st.is_valid]

ValidateConfig ==
    /\ validation.pc = "ready"
    /\ \E order \in LoopOrders :
           validation' = RunValidateConfig(config, now, order)
    /\ UNCHANGED <<config, now>>
    /\ UNCHANGED <<clientVars, volumeVars>>

----------------------------------------------------------------------------
(* The configurations validate_config is applied to.                       *)

\* Longest label and format drawn exhaustively from the alphabets below.
MaxLabelLen == 2

MaxFormatLen == 2

LabelAlphabet == {"a", "A", "1", "-", "_", "!", Newline, Ideograph}

FormatTokens == {"a", "A", "-", "!", Newline} \cup Directives

SeqsUpTo(S, n) == UNION {[1..k -> S] : k \in 0..n}

Rep(c, n) == [i \in 1..n |-> c]

\* Labels around the length limit of the label regex.
LongLabels ==
    {Rep("a", LabelMaxLen), Rep("a", LabelMaxLen + 1),
     Rep("a", LabelMaxLen) \o <<Newline>>, <<"A">> \o Rep("a", LabelMaxLen)}

\* Formats around the length limit of the name regex: the longest name is
\* NameMiddleMax + 2 characters, of which the prefix takes Len(DummyPrefix).
LongFormats ==
    {Rep("a", NameMiddleMax + 2 - Len(DummyPrefix)),
     Rep("a", NameMiddleMax + 3 - Len(DummyPrefix))}

Labels == SeqsUpTo(LabelAlphabet, MaxLabelLen) \cup LongLabels

Formats == SeqsUpTo(FormatTokens, MaxFormatLen) \cup LongFormats

\* The settings the other two keys take while one key ranges over all of its
\* values: a valid one and invalid ones.
SomeLabels == {<<"a">>, <<"A">>, <<"!">>, <<>>}

SomeFormats == {<<"%Y">>, <<"%b">>, <<"-">>}

Morning == [year |-> 2026, month |-> 11, day |-> 6, hour |-> 11]

Evening == [year |-> 2027, month |-> 1, day |-> 31, hour |-> 23]

\* The instants pendulum.now('utc') returns in the runs.
Instants == {Morning, Evening}

Configs ==
    [snapshot_datetime_format : Formats,
     snapshot_author_label : SomeLabels,
     snapshot_author_label_key : SomeLabels]
    \cup
    [snapshot_datetime_format : SomeFormats,
     snapshot_author_label : Labels,
     snapshot_author_label_key : SomeLabels]
    \cup
    [snapshot_datetime_format : SomeFormats,
     snapshot_author_label : SomeLabels,
     snapshot_author_label_key : Labels]

\* The configuration in force while the snapshot client is exercised.
DefaultConfig ==
    [snapshot_datetime_format |-> <<"%Y", "-", "%d">>,
     snapshot_author_label |-> <<"a">>,
     snapshot_author_label_key |-> <<"a">>]

----------------------------------------------------------------------------
(* The remote service and the values exchanged with it.                    *)

\* Most zone operations the remote service accepts in one run.
MaxOperations == 2

OperationNames == 1..MaxOperations

\* A ZoneOperation goes from PENDING, to RUNNING, to DONE.
OperationStatuses == {"PENDING", "RUNNING", "DONE"}

\* The snapshot object itself can be CREATING, DELETING, FAILED, READY or
\* UPLOADING; UNKNOWN stands for any status the provider adds.
SnapshotStatuses == {"CREATING", "DELETING", "FAILED", "READY", "UPLOADING", "UNKNOWN"}

NoOperation == [status |-> "none", zone |-> "", target |-> ""]

Absent == "absent"

\* ctx.config['gcloud_project']
Project == "project-1"

DiskA == [name |-> "disk-a", zone |-> "zone-a"]

DiskB == [name |-> "disk-b", zone |-> "zone-b"]

\* What the caller asks create_snapshot for: each disk has its snapshot name.
CreateArgs ==
    {[disk |-> DiskA, snapshot_name |-> "snap-a", snapshot_description |-> "desc"],
     [disk |-> DiskB, snapshot_name |-> "snap-b", snapshot_description |-> "desc"]}

SnapshotNames == {a.snapshot_name : a \in CreateArgs}

\* One remote request, as the client library sends it.
Request(api, zone, name, body) ==
    [api |-> api, project |-> Project, zone |-> zone, name |-> name, body |-> body]

NoBody == [name |-> "", description |-> ""]

NoError == [type |-> "none", arg |-> ""]

\* No labelFingerprint read yet.
NoFingerprint == -1

NoCall ==
    [fn |-> "none", arg |-> "none", pc |-> "idle", client |-> FALSE,
     requests |-> <<>>,
     operation_status |-> "unfetched", snapshot_status |-> "unfetched",
     labelFingerprint |-> NoFingerprint, resp |-> <<>>,
     returned |-> "nothing", raised |-> NoError, afterDone |-> FALSE]

\* An invocation is in progress until it has returned or raised.
Busy == call.pc \notin {"idle", "returned", "raised"}

Raise(c, type, arg) == [c EXCEPT !.pc = "raised", !.raised = [type |-> type, arg |-> arg]]

Return(c, value) == [c EXCEPT !.pc = "returned", !.returned = value]

Sent(c, request) == [c EXCEPT !.requests = Append(@, request)]

\* The number of requests of one API an invocation has issued.
Issued(c, api) == Cardinality({i \in DOMAIN c.requests : c.requests[i].api = api})

----------------------------------------------------------------------------
(* get_gcloud                                                              *)

\* The statement each function runs on the client get_gcloud returned.
AfterGetGcloud(fn) ==
    CASE fn = "create_snapshot" -> "createSnapshot"
      [] fn = "get_snapshot_status" -> "zoneOperations.get"
      [] fn = "set_snapshot_labels" -> "labels.snapshots.get"
      [] fn = "delete_snapshot" -> "snapshots.delete"
      [] fn = "load_snapshots" -> "snapshots.list"

\* The credentials get_gcloud ends up with: the keyfile string overrides the
\* keyfile name, and the application default is the fallback.
GcloudCredentials(c) ==
    IF c.gcloud_json_keyfile_string THEN "keyfile_dict"
    ELSE IF c.gcloud_json_keyfile_name THEN "keyfile_name"
    ELSE IF c.application_default THEN "application_default"
    ELSE "none"

\* How get_gcloud can end.  Without a keyfile and without application default
\* credentials it raises (the lookup of the default raises, or else the
\* RuntimeError "Auth for Google Cloud was not configured"): AuthError stands
\* for either.  With credentials discovery.build builds the client, which
\* succeeds or fails in the transport when it fetches the discovery document.
GetGcloudOutcomes(c) ==
    IF GcloudCredentials(c) = "none" THEN {"AuthError"} ELSE {"client", "HttpError"}

\* The deployments of the runs: one with only the ambient default credentials,
\* one with no credentials at all.
CredentialConfigs ==
    {[gcloud_json_keyfile_name |-> FALSE, gcloud_json_keyfile_string |-> FALSE,
      application_default |-> TRUE],
     [gcloud_json_keyfile_name |-> FALSE, gcloud_json_keyfile_string |-> FALSE,
      application_default |-> FALSE]}

\* gcloud = get_gcloud(ctx), the first step of every client function.
GetGcloud ==
    /\ call.pc = "get_gcloud"
    /\ \E outcome \in GetGcloudOutcomes(creds) :
           call' = IF outcome = "client"
                   THEN [call EXCEPT !.client = TRUE, !.pc = AfterGetGcloud(call.fn)]
                   ELSE Raise(call, outcome, "")
    /\ UNCHANGED <<creds, operations, snapshots, handles, doneSeen>>
    /\ UNCHANGED <<labelling, deleted, nonClientVars>>

----------------------------------------------------------------------------
(* create_snapshot                                                         *)

\* The caller invokes create_snapshot(ctx, disk, snapshot_name, description).
CreateSnapshotCall ==
    /\ ~Busy
    /\ \E a \in CreateArgs :
           call' = [NoCall EXCEPT !.fn = "create_snapshot", !.arg = a,
                                  !.pc = "get_gcloud"]
    /\ UNCHANGED <<creds, operations, snapshots, handles, doneSeen>>
    /\ UNCHANGED <<labelling, deleted, nonClientVars>>

\* Takes the zone of the handle from the wrong field of the disk.
NewSnapshotIdentifierDiskName(a, operation) ==
    [snapshot_name |-> a.snapshot_name,
     zone |-> a.disk.name,
     operation_name |-> operation.name]

\* The handle create_snapshot builds from its arguments and the operation.
NewSnapshotIdentifier(a, operation) ==
    [snapshot_name |-> a.snapshot_name,
     zone |-> a.disk.zone,
     operation_name |-> operation.name]

\* gcloud.disks().createSnapshot(...).execute() and the return.  The remote
\* service either fails the request, or registers a PENDING zone operation
\* under an unused name and answers with it; it refuses a snapshot name that
\* exists or is being created.
CreateSnapshotRequest ==
    /\ call.fn = "create_snapshot"
    /\ call.pc = "createSnapshot"
    /\ LET a == call.arg
           request == Request("disks.createSnapshot", a.disk.zone, a.disk.name,
                              [name |-> a.snapshot_name,
                               description |-> a.snapshot_description])
           free == {n \in OperationNames : operations[n] = NoOperation}
           taken == \/ snapshots[a.snapshot_name] # Absent
                    \/ \E n \in OperationNames :
                           /\ operations[n].target = a.snapshot_name
                           /\ operations[n].status # "DONE"
       IN  \/ /\ call' = Raise(Sent(call, request), "HttpError", "")
              /\ UNCHANGED <<operations, handles>>
           \/ /\ free # {}
              /\ ~taken
              /\ LET n == CHOOSE m \in free : \A k \in free : m <= k
                     h == NewSnapshotIdentifier(a, [name |-> n])
                 IN  /\ operations' = [operations EXCEPT ![n] =
                             [status |-> "PENDING", zone |-> a.disk.zone,
                              target |-> a.snapshot_name]]
                     /\ call' = Return(Sent(call, request), h)
                     /\ handles' = handles \cup {h}
    /\ UNCHANGED <<creds, snapshots, doneSeen>>
    /\ UNCHANGED <<labelling, deleted, nonClientVars>>

----------------------------------------------------------------------------
(* get_snapshot_status                                                     *)

\* The caller polls a handle create_snapshot returned.
GetSnapshotStatusCall ==
    /\ ~Busy
    /\ \E h \in handles :
           call' = [NoCall EXCEPT !.fn = "get_snapshot_status", !.arg = h,
                                  !.pc = "get_gcloud",
                                  !.afterDone = (h \in doneSeen)]
    /\ UNCHANGED <<creds, operations, snapshots, handles, doneSeen>>
    /\ UNCHANGED <<labelling, deleted, nonClientVars>>

\* Treats a RUNNING operation as complete.
OperationNotCompleteOnlyPending(status) == status = "PENDING"

\* not operation['status'] == 'DONE'
OperationNotComplete(status) == ~(status = "DONE")

\* Answers COMPLETE for every status that is not FAILED.
SnapshotOutcomeNoReadyCheck(status) ==
    IF status = "FAILED"
    THEN [kind |-> "raise", type |-> "SnapshotCreateError", arg |-> status]
    ELSE [kind |-> "return", value |-> "COMPLETE"]

\* Never reports a finished snapshot.
SnapshotOutcomeReadyIsPending(status) ==
    IF status = "FAILED"
    THEN [kind |-> "raise", type |-> "SnapshotCreateError", arg |-> status]
    ELSE [kind |-> "return", value |-> "PENDING"]

\* Raises for a snapshot that is being deleted as well, with a fixed message.
SnapshotOutcomeRaisesMore(status) ==
    IF status \in {"FAILED", "DELETING"}
    THEN [kind |-> "raise", type |-> "SnapshotCreateError", arg |-> "FAILED"]
    ELSE IF status # "READY"
    THEN [kind |-> "return", value |-> "PENDING"]
    ELSE [kind |-> "return", value |-> "COMPLETE"]

\* The branch on snapshot['status'] that ends get_snapshot_status.
SnapshotOutcome(status) ==
    IF status = "FAILED"
    THEN [kind |-> "raise", type |-> "SnapshotCreateError", arg |-> status]
    ELSE IF status # "READY"
    THEN [kind |-> "return", value |-> "PENDING"]
    ELSE [kind |-> "return", value |-> "COMPLETE"]

\* What the remote service can answer to zoneOperations().get(zone, name):
\* the status of that operation of that zone, or a failure.
GetOperationResponses(zone, name) ==
    {"HttpError"} \cup
    (IF name \in OperationNames /\ operations[name] # NoOperation
        /\ operations[name].zone = zone
     THEN {operations[name].status}
     ELSE {})

\* What the remote service can answer to snapshots().get(name).
GetSnapshotResponses(name) ==
    {"HttpError"} \cup
    (IF name \in SnapshotNames /\ snapshots[name] # Absent
     THEN {snapshots[name]}
     ELSE {})

\* Skips the operation read once an earlier poll has seen the operation DONE.
PollGetOperationSkippedAfterDone ==
    /\ call.fn = "get_snapshot_status"
    /\ call.pc = "zoneOperations.get"
    /\ LET h == call.arg
           request == Request("zoneOperations.get", h.zone, h.operation_name, NoBody)
       IN  IF call.afterDone
           THEN /\ call' = [call EXCEPT !.pc = "snapshots.get"]
                /\ UNCHANGED doneSeen
           ELSE \E response \in GetOperationResponses(h.zone, h.operation_name) :
                  LET c == Sent(call, request)
                  IN  IF response = "HttpError"
                      THEN /\ call' = Raise(c, "HttpError", "")
                           /\ UNCHANGED doneSeen
                      ELSE /\ call' =
                                IF OperationNotComplete(response)
                                THEN Return([c EXCEPT !.operation_status = response],
                                            "PENDING")
                                ELSE [c EXCEPT !.operation_status = response,
                                               !.pc = "snapshots.get"]
                           /\ doneSeen' = IF response = "DONE"
                                          THEN doneSeen \cup {h} ELSE doneSeen
    /\ UNCHANGED <<creds, operations, snapshots, handles>>
    /\ UNCHANGED <<labelling, deleted, nonClientVars>>

\* Sends the operation read a second time when the first one fails.
PollGetOperationRetries ==
    /\ call.fn = "get_snapshot_status"
    /\ call.pc = "zoneOperations.get"
    /\ LET h == call.arg
           request == Request("zoneOperations.get", h.zone, h.operation_name, NoBody)
       IN  \E response \in GetOperationResponses(h.zone, h.operation_name) :
              LET c == Sent(call, request)
              IN  IF response = "HttpError"
                  THEN /\ call' = IF Issued(call, "zoneOperations.get") = 0
                                  THEN c
                                  ELSE Raise(c, "HttpError", "")
                       /\ UNCHANGED doneSeen
                  ELSE /\ call' =
                            IF OperationNotComplete(response)
                            THEN Return([c EXCEPT !.operation_status = response],
                                        "PENDING")
                            ELSE [c EXCEPT !.operation_status = response,
                                           !.pc = "snapshots.get"]
                       /\ doneSeen' = IF response = "DONE"
                                      THEN doneSeen \cup {h} ELSE doneSeen
    /\ UNCHANGED <<creds, operations, snapshots, handles>>
    /\ UNCHANGED <<labelling, deleted, nonClientVars>>

\* gcloud.zoneOperations().get(...).execute() and the check of its status.
PollGetOperation ==
    /\ call.fn = "get_snapshot_status"
    /\ call.pc = "zoneOperations.get"
    /\ LET h == call.arg
           request == Request("zoneOperations.get", h.zone, h.operation_name, NoBody)
       IN  \E response \in GetOperationResponses(h.zone, h.operation_name) :
              LET c == Sent(call, request)
              IN  IF response = "HttpError"
                  THEN /\ call' = Raise(c, "HttpError", "")
                       /\ UNCHANGED doneSeen
                  ELSE /\ call' =
                            IF OperationNotComplete(response)
                            THEN Return([c EXCEPT !.operation_status = response],
                                        "PENDING")
                            ELSE [c EXCEPT !.operation_status = response,
                                           !.pc = "snapshots.get"]
                       /\ doneSeen' = IF response = "DONE"
                                      THEN doneSeen \cup {h} ELSE doneSeen
    /\ UNCHANGED <<creds, operations, snapshots, handles>>
    /\ UNCHANGED <<labelling, deleted, nonClientVars>>

\* gcloud.snapshots().get(...).execute() and the branch on its status.
PollGetSnapshot ==
    /\ call.fn = "get_snapshot_status"
    /\ call.pc = "snapshots.get"
    /\ LET h == call.arg
           request == Request("snapshots.get", "", h.snapshot_name, NoBody)
       IN  \E response \in GetSnapshotResponses(h.snapshot_name) :
              LET c == Sent(call, request)
              IN  IF response = "HttpError"
                  THEN call' = Raise(c, "HttpError", "")
                  ELSE LET out == SnapshotOutcome(response)
                           seen == [c EXCEPT !.snapshot_status = response]
                       IN  call' = IF out.kind = "raise"
                                   THEN Raise(seen, out.type, out.arg)
                                   ELSE Return(seen, out.value)
    /\ UNCHANGED <<creds, operations, snapshots, handles, doneSeen>>
    /\ UNCHANGED <<labelling, deleted, nonClientVars>>

----------------------------------------------------------------------------
(* The remote service on its own.                                          *)

\* A zone operation advances PENDING -> RUNNING -> DONE.
OperationAdvances ==
    /\ \E n \in OperationNames :
          /\ operations[n].status \in {"PENDING", "RUNNING"}
          /\ operations' = [operations EXCEPT ![n].status =
                               IF @ = "PENDING" THEN "RUNNING" ELSE "DONE"]
    /\ UNCHANGED <<creds, snapshots, handles, call, doneSeen>>
    /\ UNCHANGED <<labelling, deleted, nonClientVars>>

\* The snapshot resource of an accepted creation appears, changes its status
\* or disappears, as the provider decides.
SnapshotChanges ==
    /\ \E name \in SnapshotNames, status \in SnapshotStatuses \cup {Absent} :
          /\ \E n \in OperationNames : operations[n].target = name
          /\ snapshots[name] # status
          /\ snapshots' = [snapshots EXCEPT ![name] = status]
    /\ UNCHANGED <<creds, operations, handles, call, doneSeen>>
    /\ UNCHANGED <<labelling, deleted, nonClientVars>>

----------------------------------------------------------------------------
(* set_snapshot_labels                                                     *)

\* The fingerprints the model follows: label writes per snapshot.
MaxLabelWrites == 2

\* Before any label was written.
NoLabels == [labels |-> <<>>, labelFingerprint |-> 0]

\* The labels the caller sets, and the labels another writer sets.
ClientLabels == {"created-by" :> "k8s-snapshots"}

OtherLabels == {"owner" :> "other"}

\* The caller invokes set_snapshot_labels(ctx, snapshot_identifier, labels).
SetSnapshotLabelsCall ==
    /\ ~Busy
    /\ \E h \in handles, labels \in ClientLabels :
          /\ labelling[h.snapshot_name].labelFingerprint < MaxLabelWrites
          /\ call' = [NoCall EXCEPT !.fn = "set_snapshot_labels",
                                    !.arg = [snapshot_identifier |-> h,
                                             labels |-> labels],
                                    !.pc = "get_gcloud"]
    /\ UNCHANGED <<creds, operations, snapshots, handles, doneSeen, labelling, deleted>>
    /\ UNCHANGED nonClientVars

\* What the remote service can answer to snapshots().get(name), with the
\* labelFingerprint of the snapshot record.
GetSnapshotRecords(name) ==
    {[ok |-> FALSE, labelFingerprint |-> NoFingerprint]} \cup
    (IF name \in SnapshotNames /\ snapshots[name] # Absent
     THEN {[ok |-> TRUE, labelFingerprint |-> labelling[name].labelFingerprint]}
     ELSE {})

\* snapshot = gcloud.snapshots().get(...).execute()
SetLabelsGetSnapshot ==
    /\ call.fn = "set_snapshot_labels"
    /\ call.pc = "labels.snapshots.get"
    /\ LET name == call.arg.snapshot_identifier.snapshot_name
           request == Request("snapshots.get", "", name, NoBody)
       IN  \E response \in GetSnapshotRecords(name) :
              LET c == Sent(call, request)
              IN  call' = IF response.ok
                          THEN [c EXCEPT !.labelFingerprint = response.labelFingerprint,
                                         !.pc = "snapshots.setLabels"]
                          ELSE Raise(c, "HttpError", "")
    /\ UNCHANGED <<creds, operations, snapshots, handles, doneSeen, labelling, deleted>>
    /\ UNCHANGED nonClientVars

\* Submits the fingerprint of a snapshot without labels, whatever was read.
SetLabelsBodyFirstFingerprint(labels, snapshot) ==
    [labels |-> labels, labelFingerprint |-> 0]

\* The body of the setLabels request.
SetLabelsBody(labels, snapshot) ==
    [labels |-> labels, labelFingerprint |-> snapshot.labelFingerprint]

\* What the remote service can answer to snapshots().setLabels(name, body): it
\* rejects a write whose fingerprint is not the current one.
SetLabelsResponses(name, body) ==
    {"HttpError"} \cup
    (IF name \notin SnapshotNames \/ snapshots[name] = Absent THEN {"NotFound"}
     ELSE IF body.labelFingerprint # labelling[name].labelFingerprint
     THEN {"ConditionNotMet"}
     ELSE {"ack"})

\* The status code of the HttpError the client library raises.
HttpStatus(response) ==
    CASE response = "NotFound" -> "404"
      [] response = "ConditionNotMet" -> "412"
      [] OTHER -> ""

\* gcloud.snapshots().setLabels(...).execute() and the return.
SetLabelsRequest ==
    /\ call.fn = "set_snapshot_labels"
    /\ call.pc = "snapshots.setLabels"
    /\ LET name == call.arg.snapshot_identifier.snapshot_name
           body == SetLabelsBody(call.arg.labels,
                                 [labelFingerprint |-> call.labelFingerprint])
           request == Request("snapshots.setLabels", "", name, body)
       IN  \E response \in SetLabelsResponses(name, body) :
              LET c == Sent(call, request)
              IN  IF response = "ack"
                  THEN /\ labelling' = [labelling EXCEPT ![name] =
                              [labels |-> body.labels,
                               labelFingerprint |-> @.labelFingerprint + 1]]
                       /\ call' = Return(c, "ack")
                  ELSE /\ call' = Raise(c, "HttpError", HttpStatus(response))
                       /\ UNCHANGED labelling
    /\ UNCHANGED <<creds, operations, snapshots, handles, doneSeen, deleted>>
    /\ UNCHANGED nonClientVars

\* Another writer replaces the labels of a snapshot; the remote service gives
\* the snapshot a new fingerprint.
OtherWriter ==
    /\ \E name \in SnapshotNames, labels \in OtherLabels :
          /\ snapshots[name] # Absent
          /\ labelling[name].labelFingerprint + 1 < MaxLabelWrites
          /\ labelling' = [labelling EXCEPT ![name] =
                 [labels |-> labels, labelFingerprint |-> @.labelFingerprint + 1]]
    /\ UNCHANGED <<creds, operations, snapshots, handles, call, doneSeen, deleted>>
    /\ UNCHANGED nonClientVars

----------------------------------------------------------------------------
(* delete_snapshot                                                         *)

\* The caller invokes delete_snapshot(ctx, snapshot).
DeleteSnapshotCall ==
    /\ ~Busy
    /\ \E name \in SnapshotNames :
          call' = [NoCall EXCEPT !.fn = "delete_snapshot", !.arg = [name |-> name],
                                 !.pc = "get_gcloud"]
    /\ UNCHANGED <<creds, operations, snapshots, handles, doneSeen, labelling, deleted>>
    /\ UNCHANGED nonClientVars

\* What the remote service can answer to snapshots().delete(name).
DeleteResponses(name) ==
    {"HttpError"} \cup
    (IF name \notin SnapshotNames \/ snapshots[name] = Absent THEN {"NotFound"}
     ELSE {"ack"})

\* Treats the deletion of a snapshot that is not there as done.
DeleteSnapshotResultIgnoresNotFound(c, response) ==
    IF response \in {"ack", "NotFound"}
    THEN Return(c, "ack")
    ELSE Raise(c, "HttpError", HttpStatus(response))

\* delete_snapshot returns what execute() returns and lets its error pass.
DeleteSnapshotResult(c, response) ==
    IF response = "ack"
    THEN Return(c, "ack")
    ELSE Raise(c, "HttpError", HttpStatus(response))

\* gcloud.snapshots().delete(...).execute() and the return.
DeleteSnapshotRequest ==
    /\ call.fn = "delete_snapshot"
    /\ call.pc = "snapshots.delete"
    /\ LET name == call.arg.name
           request == Request("snapshots.delete", "", name, NoBody)
       IN  \E response \in DeleteResponses(name) :
              /\ call' = DeleteSnapshotResult(Sent(call, request), response)
              /\ IF response = "ack"
                 THEN /\ snapshots' = [snapshots EXCEPT ![name] = Absent]
                      /\ labelling' = [labelling EXCEPT ![name] = NoLabels]
                      /\ deleted' = deleted \cup {name}
                 ELSE UNCHANGED <<snapshots, labelling, deleted>>
    /\ UNCHANGED <<creds, operations, handles, doneSeen>>
    /\ UNCHANGED nonClientVars

----------------------------------------------------------------------------
(* load_snapshots                                                          *)

\* label_filters, a dict in insertion order: a sequence of key/value pairs
\* with distinct keys.
LabelFilters ==
    {<<>>,
     <<[key |-> "created-by", value |-> "k8s-snapshots"]>>,
     <<[key |-> "created-by", value |-> "k8s-snapshots"],
       [key |-> "env", value |-> "prod"]>>,
     <<[key |-> "env", value |-> "prod"],
       [key |-> "created-by", value |-> "k8s-snapshots"]>>}

\* snapshot_list_filter_expr(label_filters); the f-string is the sequence of
\* its pieces.  list(keys())[0] raises IndexError on an empty dict.
SnapshotListFilterExpr(label_filters) ==
    IF Len(label_filters) = 0
    THEN [kind |-> "raise", type |-> "IndexError", value |-> <<>>]
    ELSE [kind |-> "return", type |-> "none",
          value |-> <<"labels.", label_filters[1].key, " eq ",
                      label_filters[1].value>>]

\* The caller invokes load_snapshots(ctx, label_filters).
LoadSnapshotsCall ==
    /\ ~Busy
    /\ \E label_filters \in LabelFilters :
          call' = [NoCall EXCEPT !.fn = "load_snapshots", !.arg = label_filters,
                                 !.pc = "get_gcloud"]
    /\ UNCHANGED <<creds, operations, snapshots, handles, doneSeen, labelling, deleted>>
    /\ UNCHANGED nonClientVars

\* The sourceDisk URL of a snapshot, as split('/') cuts it.
SourceDisk(disk) ==
    <<"https:", "", "www.googleapis.com", "compute", "v1", "projects", Project,
      "zones", disk.zone, "disks", disk.name>>

\* The creationTimestamp of a snapshot: a day and an hour at a UTC offset.
CreationTimestamp(name) ==
    IF name = "snap-a" THEN [day |-> 1, hour |-> 20, offset |-> -7]
    ELSE [day |-> 2, hour |-> 1, offset |-> 2]

\* The item of the list response for a snapshot.
Item(name) ==
    LET a == CHOOSE x \in CreateArgs : x.snapshot_name = name
    IN  [name |-> name, sourceDisk |-> SourceDisk(a.disk),
         creationTimestamp |-> CreationTimestamp(name)]

\* Sequences without repetition over a set.
Orderings(S) ==
    {q \in UNION {[1..k -> S] : k \in 0..Cardinality(S)} :
        \A i, j \in DOMAIN q : i # j => q[i] # q[j]}

\* What the remote service can answer to snapshots().list(filter): snapshots
\* it holds, those it finds to match, in the order it chooses; a response
\* without matches may come without 'items'.
ListResponses ==
    {[ok |-> FALSE, resp |-> <<>>], [ok |-> TRUE, resp |-> <<>>]} \cup
    {[ok |-> TRUE, resp |-> "items" :> [i \in DOMAIN q |-> Item(q[i])]] :
        q \in Orderings({name \in SnapshotNames : snapshots[name] # Absent})}

\* parse_timestamp(date_str): the same instant at offset 0.
ParseTimestamp(ts) ==
    LET hours == ts.day * 24 + ts.hour - ts.offset
    IN  [day |-> hours \div 24, hour |-> hours % 24, offset |-> 0]

\* seq[-n:]
LastOf(seq, n) ==
    SubSeq(seq, IF Len(seq) > n THEN Len(seq) - n + 1 ELSE 1, Len(seq))

\* The Snapshot built from one item; the unpacking of the last four segments
\* of sourceDisk.
SnapshotOf(item) ==
    LET last == LastOf(item.sourceDisk, 4)
    IN  [name |-> item.name,
         created_at |-> ParseTimestamp(item.creationTimestamp),
         disk |-> [zone |-> last[2], name |-> last[4]]]

\* Builds the list back to front.
LoadSnapshotsResultReversed(resp) ==
    LET items == IF "items" \in DOMAIN resp THEN resp["items"] ELSE <<>>
    IN  IF \E i \in DOMAIN items : Len(LastOf(items[i].sourceDisk, 4)) # 4
        THEN [kind |-> "raise", type |-> "ValueError", value |-> <<>>]
        ELSE [kind |-> "return", type |-> "none",
              value |-> [i \in DOMAIN items |-> SnapshotOf(items[Len(items) + 1 - i])]]

\* The loop of load_snapshots over resp.get('items', []).
LoadSnapshotsResult(resp) ==
    LET items == IF "items" \in DOMAIN resp THEN resp["items"] ELSE <<>>
    IN  IF \E i \in DOMAIN items : Len(LastOf(items[i].sourceDisk, 4)) # 4
        THEN [kind |-> "raise", type |-> "ValueError", value |-> <<>>]
        ELSE [kind |-> "return", type |-> "none",
              value |-> [i \in DOMAIN items |-> SnapshotOf(items[i])]]

\* The evaluation of the filter argument, snapshots().list(...).execute(), the
\* loop and the return.
LoadSnapshotsRequest ==
    /\ call.fn = "load_snapshots"
    /\ call.pc = "snapshots.list"
    /\ LET expr == SnapshotListFilterExpr(call.arg)
       IN  IF expr.kind = "raise"
           THEN call' = Raise(call, expr.type, "")
           ELSE \E response \in ListResponses :
                  LET c == [Sent(call, Request("snapshots.list", "", "",
                                               [filter |-> expr.value]))
                               EXCEPT !.resp = response.resp]
                      out == LoadSnapshotsResult(response.resp)
                  IN  call' = IF ~response.ok THEN Raise(c, "HttpError", "")
                              ELSE IF out.kind = "raise" THEN Raise(c, out.type, "")
                              ELSE Return(c, out.value)
    /\ UNCHANGED <<creds, operations, snapshots, handles, doneSeen, labelling, deleted>>
    /\ UNCHANGED nonClientVars

----------------------------------------------------------------------------
(* get_disk_identifier and supports_volume                                 *)

\* What dict.get answers for a missing key.
PyNone == "<None>"

\* d.get(k)
DictGet(d, k) == IF k \in DOMAIN d THEN d[k] ELSE PyNone

\* bool(x) of a str or None.
Truthy(x) == x # PyNone /\ x # ""

EmptyDict == <<>>

ZoneLabel == "failure-domain.beta.kubernetes.io/zone"

RegionLabel == "failure-domain.beta.kubernetes.io/region"

ProvisionerAnnotation == "pv.kubernetes.io/provisioned-by"

\* Accepts every zone label that is present, the empty one included.
GetDiskIdentifierResultNoneCheck(v) ==
    IF \/ "gcePersistentDisk" \notin DOMAIN v.spec
       \/ "pdName" \notin DOMAIN v.spec["gcePersistentDisk"]
    THEN [kind |-> "raise", type |-> "KeyError", value |-> PyNone]
    ELSE IF DictGet(v.labels, ZoneLabel) = PyNone
    THEN [kind |-> "raise", type |-> "UnsupportedVolume", value |-> PyNone]
    ELSE [kind |-> "return", type |-> "none",
          value |-> [name |-> v.spec["gcePersistentDisk"]["pdName"],
                     zone |-> DictGet(v.labels, ZoneLabel)]]

\* get_disk_identifier(volume): the subscripts of line 95 raise KeyError on a
\* missing key, before the zone label is looked up; a zone that is None or
\* empty raises UnsupportedVolume.
GetDiskIdentifierResult(v) ==
    IF \/ "gcePersistentDisk" \notin DOMAIN v.spec
       \/ "pdName" \notin DOMAIN v.spec["gcePersistentDisk"]
    THEN [kind |-> "raise", type |-> "KeyError", value |-> PyNone]
    ELSE IF ~Truthy(DictGet(v.labels, ZoneLabel))
    THEN [kind |-> "raise", type |-> "UnsupportedVolume", value |-> PyNone]
    ELSE [kind |-> "return", type |-> "none",
          value |-> [name |-> v.spec["gcePersistentDisk"]["pdName"],
                     zone |-> DictGet(v.labels, ZoneLabel)]]

\* Compares the provisioner without regard to case.
SupportsVolumeResultAnyCase(v) ==
    [kind |-> "return", type |-> "none",
     value |-> DictGet(v.annotations, ProvisionerAnnotation)
                  \in {"kubernetes.io/gce-pd", "Kubernetes.io/GCE-PD"}]

\* supports_volume(volume)
SupportsVolumeResult(v) ==
    [kind |-> "return", type |-> "none",
     value |-> DictGet(v.annotations, ProvisionerAnnotation) = "kubernetes.io/gce-pd"]

GetDiskIdentifier ==
    /\ volumeCall.pc = "ready"
    /\ volumeCall' = [pc |-> "done", fn |-> "get_disk_identifier",
                      outcome |-> GetDiskIdentifierResult(volume)]
    /\ UNCHANGED <<volume, validateVars, clientVars>>

SupportsVolume ==
    /\ volumeCall.pc = "ready"
    /\ volumeCall' = [pc |-> "done", fn |-> "supports_volume",
                      outcome |-> SupportsVolumeResult(volume)]
    /\ UNCHANGED <<volume, validateVars, clientVars>>

\* The volumes the functions are applied to.
VolumeSpecs ==
    {EmptyDict,
     "gcePersistentDisk" :> EmptyDict,
     "gcePersistentDisk" :> ("pdName" :> "disk-a"),
     "gcePersistentDisk" :> ("pdName" :> "disk-b")}

VolumeLabels ==
    {zone @@ region :
        zone \in {EmptyDict} \cup {ZoneLabel :> z : z \in {"", "zone-a", "zone-b"}},
        region \in {EmptyDict, RegionLabel :> "region-1"}}

VolumeAnnotations ==
    {EmptyDict} \cup
    {ProvisionerAnnotation :> p :
        p \in {"kubernetes.io/gce-pd", "Kubernetes.io/GCE-PD", "kubernetes.io/gce-pd2",
               "kubernetes.io/aws-ebs", ""}}

Volumes == [spec : VolumeSpecs, labels : VolumeLabels, annotations : VolumeAnnotations]

\* The volume in force while the other functions are exercised.
DefaultVolume ==
    [spec |-> "gcePersistentDisk" :> ("pdName" :> "disk-a"),
     labels |-> ZoneLabel :> "zone-a",
     annotations |-> ProvisionerAnnotation :> "kubernetes.io/gce-pd"]

NoVolumeCall ==
    [pc |-> "off", fn |-> "none",
     outcome |-> [kind |-> "none", type |-> "none", value |-> PyNone]]

InitVolume ==
    /\ volume = DefaultVolume
    /\ volumeCall = NoVolumeCall

----------------------------------------------------------------------------
(* Specifications                                                          *)

InitValidation ==
    /\ config = DefaultConfig
    /\ now = Morning
    /\ validation = [pc |-> "off", reports |-> <<>>, outcome |-> "none"]

InitClient ==
    /\ operations = [n \in OperationNames |-> NoOperation]
    /\ snapshots = [name \in SnapshotNames |-> Absent]
    /\ handles = {}
    /\ call = NoCall
    /\ doneSeen = {}
    /\ labelling = [name \in SnapshotNames |-> NoLabels]
    /\ deleted = {}

\* The snapshot client against the remote service.
Init ==
    /\ InitValidation
    /\ InitVolume
    /\ creds \in CredentialConfigs
    /\ InitClient

Next ==
    \/ CreateSnapshotCall
    \/ GetSnapshotStatusCall
    \/ GetGcloud
    \/ CreateSnapshotRequest
    \/ PollGetOperation
    \/ PollGetSnapshot
    \/ OperationAdvances
    \/ SnapshotChanges

Spec == Init /\ [][Next]_vars

\* validate_config applied once to a configuration.
InitValidate ==
    /\ config \in Configs
    /\ now \in Instants
    /\ validation = [pc |-> "ready", reports |-> <<>>, outcome |-> "none"]
    /\ creds \in {c \in CredentialConfigs : GcloudCredentials(c) = "none"}
    /\ InitClient
    /\ InitVolume

NextValidate == ValidateConfig

SpecValidate == InitValidate /\ [][NextValidate]_vars

\* get_disk_identifier or supports_volume applied once to a volume.
InitVolumes ==
    /\ volume \in Volumes
    /\ volumeCall = [NoVolumeCall EXCEPT !.pc = "ready"]
    /\ InitValidation
    /\ creds \in {c \in CredentialConfigs : GcloudCredentials(c) = "none"}
    /\ InitClient

NextVolumes == GetDiskIdentifier \/ SupportsVolume

SpecVolumes == InitVolumes /\ [][NextVolumes]_vars

\* All five operations of the client against a remote service that already
\* holds snapshots: snap-a, created earlier through the handle the caller
\* keeps, in any status, and possibly snap-b.  Here the snapshot resources
\* change through the requests only.
InitAll ==
    /\ InitValidation
    /\ InitVolume
    /\ creds \in CredentialConfigs
    /\ operations = [n \in OperationNames |->
                        IF n = 1
                        THEN [status |-> "DONE", zone |-> DiskA.zone, target |-> "snap-a"]
                        ELSE NoOperation]
    /\ snapshots \in {f \in [SnapshotNames -> SnapshotStatuses \cup {Absent}] :
                         /\ f["snap-a"] # Absent
                         /\ f["snap-b"] \in {"READY", Absent}}
    /\ handles = {[snapshot_name |-> "snap-a", zone |-> DiskA.zone, operation_name |-> 1]}
    /\ call = NoCall
    /\ doneSeen = {}
    /\ labelling = [name \in SnapshotNames |-> NoLabels]
    /\ deleted = {}

NextAll ==
    \/ LoadSnapshotsCall \/ LoadSnapshotsRequest
    \/ CreateSnapshotCall \/ CreateSnapshotRequest
    \/ GetSnapshotStatusCall \/ PollGetOperation \/ PollGetSnapshot
    \/ SetSnapshotLabelsCall \/ SetLabelsGetSnapshot \/ SetLabelsRequest
    \/ DeleteSnapshotCall \/ DeleteSnapshotRequest
    \/ GetGcloud
    \/ OperationAdvances
    \/ OtherWriter

SpecAll == InitAll /\ [][NextAll]_vars

----------------------------------------------------------------------------
(* Properties of get_snapshot_status                                       *)

PollDone == call.fn = "get_snapshot_status" /\ call.pc \in {"returned", "raised"}

PollReturned(value) ==
    call.fn = "get_snapshot_status" /\ call.pc = "returned" /\ call.returned = value

PollRaised(type) ==
    call.fn = "get_snapshot_status" /\ call.pc = "raised" /\ call.raised.type = type

OperationReads == Issued(call, "zoneOperations.get")

SnapshotReads == Issued(call, "snapshots.get")

\* C1: a poll that fetched an operation status other than DONE returns PENDING
\* and has issued no snapshots.get request.
C1_NotDoneIsPendingWithoutSnapshotRead ==
    (PollDone /\ call.operation_status \in OperationStatuses \ {"DONE"})
        => (PollReturned("PENDING") /\ SnapshotReads = 0)

\* C1 witness: a poll saw the operation RUNNING and answered PENDING although
\* the snapshot resource already was READY.
C1_Witness ==
    /\ PollReturned("PENDING")
    /\ call.operation_status = "RUNNING"
    /\ snapshots[call.arg.snapshot_name] = "READY"

\* C2: a finished poll has returned COMPLETE exactly when it fetched the
\* operation status DONE and the snapshot status READY.
C2_CompleteIffDoneAndReady ==
    PollDone => (PollReturned("COMPLETE")
                    <=> (call.operation_status = "DONE" /\ call.snapshot_status = "READY"))

\* C2 witness: a poll returned COMPLETE.
C2_Witness == PollReturned("COMPLETE") /\ SnapshotReads = 1

\* C3: a finished poll has raised SnapshotCreateError exactly when it fetched
\* the operation status DONE and the snapshot status FAILED, and the error
\* carries the status string read from the snapshot resource.
C3_CreateErrorIffDoneAndFailed ==
    PollDone =>
        /\ PollRaised("SnapshotCreateError")
              <=> (call.operation_status = "DONE" /\ call.snapshot_status = "FAILED")
        /\ PollRaised("SnapshotCreateError") => call.raised.arg = call.snapshot_status

\* C3 witness: a poll raised SnapshotCreateError('FAILED').
C3_Witness == PollRaised("SnapshotCreateError") /\ call.raised.arg = "FAILED"

\* C4: a poll that fetched the operation status DONE and a snapshot status
\* other than FAILED and READY returns PENDING and raises nothing.
C4_OtherSnapshotStatusIsPending ==
    (PollDone /\ call.operation_status = "DONE"
        /\ call.snapshot_status \in SnapshotStatuses \ {"FAILED", "READY"})
        => (PollReturned("PENDING") /\ call.raised = NoError)

\* C4 witness: a poll saw the operation DONE and a snapshot status the
\* docstring does not list, and answered PENDING.
C4_Witness ==
    /\ PollReturned("PENDING")
    /\ call.operation_status = "DONE"
    /\ call.snapshot_status = "UNKNOWN"

\* C5 as stated: a poll that starts after a poll of the same handle has
\* observed the operation DONE issues no zoneOperations.get request.
C5_NoOperationReadAfterDone ==
    (call.fn = "get_snapshot_status" /\ call.afterDone) => OperationReads = 0

\* C5 amended: a poll that starts after a poll of the same handle has observed
\* the operation DONE, and obtains a client, still issues exactly one
\* zoneOperations.get request for the handle's operation, before any
\* snapshots.get request, and reads the snapshot resource (from which alone it
\* derives COMPLETE or the error) only after that read reported DONE again.
C5_OperationReadAgainAfterDone ==
    (call.fn = "get_snapshot_status" /\ call.afterDone) =>
        /\ (PollDone /\ call.client) => OperationReads = 1
        /\ \A i \in DOMAIN call.requests :
              /\ call.requests[i].api = "zoneOperations.get"
                    => /\ i = 1
                       /\ call.requests[i].name = call.arg.operation_name
                       /\ call.requests[i].zone = call.arg.zone
              /\ call.requests[i].api = "snapshots.get"
                    => /\ i = 2
                       /\ call.operation_status = "DONE"
                       /\ call.requests[i].name = call.arg.snapshot_name
        /\ (PollReturned("COMPLETE") \/ PollRaised("SnapshotCreateError"))
              => SnapshotReads = 1

\* C5 witness: a poll that started after DONE had been observed for its handle
\* returned COMPLETE.
C5_Witness == PollReturned("COMPLETE") /\ call.afterDone

\* What a poll answers for the statuses it fetched.
PollAnswer(operation_status, snapshot_status) ==
    IF operation_status # "DONE" THEN <<"returned", "PENDING">>
    ELSE IF snapshot_status = "FAILED" THEN <<"raised", "SnapshotCreateError">>
    ELSE IF snapshot_status = "READY" THEN <<"returned", "COMPLETE">>
    ELSE <<"returned", "PENDING">>

\* The reads of a finished poll that had a client, and its answer as a
\* function of what those reads fetched.
ReadsAndAnswerOfThisCall ==
    /\ OperationReads = 1
    /\ SnapshotReads = IF call.operation_status = "DONE" THEN 1 ELSE 0
    /\ call.raised.type # "HttpError"
          => <<call.pc, IF call.pc = "raised" THEN call.raised.type ELSE call.returned>>
                = PollAnswer(call.operation_status, call.snapshot_status)
    /\ call.raised.type = "HttpError"
          => \/ call.operation_status = "unfetched"
             \/ call.operation_status = "DONE" /\ call.snapshot_status = "unfetched"

\* C6 as stated: every finished poll has issued exactly one zoneOperations.get
\* request, and one snapshots.get request exactly when that read reported DONE,
\* and its answer is a function of the statuses fetched in the call.
C6_EveryPollReadsOperationOnce == PollDone => ReadsAndAnswerOfThisCall

\* C6 amended: every finished poll whose get_gcloud returned a client has
\* issued exactly one zoneOperations.get request, and one snapshots.get request
\* exactly when that read reported DONE, and its answer is a function of the
\* statuses fetched in the call; a poll whose get_gcloud raised has issued no
\* request and ends with that error.
C6_PollWithClientReadsOperationOnce ==
    PollDone =>
        IF call.client
        THEN ReadsAndAnswerOfThisCall
        ELSE /\ call.requests = <<>>
             /\ call.pc = "raised"
             /\ call.raised.type \in {"AuthError", "HttpError"}

\* C6 witness: a second poll of a handle fetched both resources again, after
\* an earlier poll of it had already seen the operation DONE.
C6_Witness ==
    /\ PollDone
    /\ call.client
    /\ call.afterDone
    /\ Len(call.requests) = 2
    /\ call.snapshot_status = "UPLOADING"

----------------------------------------------------------------------------
(* Properties of validate_config                                           *)

ValidateDone == validation.pc = "done"

\* validate_config logged a config.error for this configuration key.
Reported(key) ==
    \E i \in DOMAIN validation.reports : validation.reports[i].key = key

StartsWithLetter(s) == Len(s) >= 1 /\ IsAlpha(s[1])

HasUppercase(s) == \E i \in DOMAIN s : s[i] \in UpperChars

\* The output of the configured timestamp format.
Rendered == PendulumFormat(now, config.snapshot_datetime_format)

\* The rules of the gate, as the spec lists them.
NameRuleHolds == NameRegexMatch(DummyPrefix \o Rendered)

KeyRuleHolds ==
    /\ LabelRegexMatch(config.snapshot_author_label)
    /\ StrIsLower(config.snapshot_author_label)
    /\ StartsWithLetter(config.snapshot_author_label)

ValueRuleHolds == LabelRegexMatch(config.snapshot_author_label_key)

\* C7 as stated: validate_config ends with a boolean, true exactly when the
\* synthesized name and both label fields satisfy their rules.
C7_ValidateReturnsBoolean ==
    ValidateDone =>
        /\ validation.outcome \in {"True", "False"}
        /\ validation.outcome = "True"
              <=> (NameRuleHolds /\ KeyRuleHolds /\ ValueRuleHolds)

\* C8: for snapshot_author_label a violation is reported exactly when the value
\* is not lowercase (str.islower()), does not start with a letter, or does not
\* match the label regex; and it is reported once.
C8_KeyFieldViolationIffRuleBroken ==
    ValidateDone =>
        /\ Reported("snapshot_author_label")
              <=> ~(/\ StrIsLower(config.snapshot_author_label)
                    /\ StartsWithLetter(config.snapshot_author_label)
                    /\ LabelRegexMatch(config.snapshot_author_label))
        /\ Cardinality({i \in DOMAIN validation.reports :
                           validation.reports[i].key = "snapshot_author_label"}) <= 1
        /\ validation.outcome # "IndexError"

\* C8 witness: a key that matches the regex and starts with a letter is
\* reported because of its case alone.
C8_Witness ==
    /\ ValidateDone
    /\ Reported("snapshot_author_label")
    /\ LabelRegexMatch(config.snapshot_author_label)
    /\ StartsWithLetter(config.snapshot_author_label)
    /\ HasUppercase(config.snapshot_author_label)

\* C9 as stated: for snapshot_author_label_key a violation is reported whenever
\* the value fails the label regex, and none is reported for a value that
\* matches it, whatever its case and first character.
C9_ValueFieldViolationIffRegexFails ==
    ValidateDone =>
        (Reported("snapshot_author_label_key")
            <=> ~LabelRegexMatch(config.snapshot_author_label_key))

\* C10 as stated: a format whose output starts with or contains an uppercase
\* character, or by itself does not match the name regex, is reported under
\* snapshot_datetime_format and validation does not return true.
C10_RenderedAloneDecides ==
    (ValidateDone /\ (HasUppercase(Rendered) \/ ~NameRegexMatch(Rendered)))
        => (Reported("snapshot_datetime_format") /\ validation.outcome # "True")

\* The output makes 'dummy-snapshot-' + output miss the name regex: up to one
\* final newline, which "$" passes over, it holds a character outside
\* [-a-z0-9], is empty or ends with a dash, or is too long for the name.
OutputBreaksName(r) ==
    \A b \in DollarCandidates(r) :
        \/ \E i \in DOMAIN b : ~(b[i] \in LowerChars \cup DigitChars \/ b[i] = "-")
        \/ Len(b) = 0
        \/ b[Len(b)] = "-"
        \/ Len(DummyPrefix) + Len(b) > NameMiddleMax + 2

\* C10 amended: a format whose output contains an uppercase character, or
\* makes the synthesized name 'dummy-snapshot-<output>' miss the name regex
\* (a forbidden character, an empty output or a final dash, or more than 48
\* characters, a single final newline apart), is reported under
\* snapshot_datetime_format and validation returns false; every other output,
\* one starting with a digit or a dash included, is not reported.
C10_SynthesizedNameDecides ==
    ValidateDone =>
        /\ (HasUppercase(Rendered) \/ OutputBreaksName(Rendered))
              => (Reported("snapshot_datetime_format") /\ validation.outcome = "False")
        /\ Reported("snapshot_datetime_format")
              => (HasUppercase(Rendered) \/ OutputBreaksName(Rendered))

\* C10 witness: a format that renders the month name is reported and
\* validation returns false.
C10_Witness ==
    /\ ValidateDone
    /\ "%b" \in {config.snapshot_datetime_format[i] :
                    i \in DOMAIN config.snapshot_datetime_format}
    /\ HasUppercase(Rendered)
    /\ Rendered[1] \in UpperChars
    /\ Reported("snapshot_datetime_format")
    /\ validation.outcome = "False"

\* C11 as stated: every rule is evaluated whatever failed before, and a
\* configuration that violates k of the three rules gets exactly k reports.
C11_OneReportPerViolatedRule ==
    ValidateDone =>
        Len(validation.reports) =
            (IF NameRuleHolds THEN 0 ELSE 1) + (IF KeyRuleHolds THEN 0 ELSE 1)
                + (IF ValueRuleHolds THEN 0 ELSE 1)

----------------------------------------------------------------------------
(* Properties of get_disk_identifier and supports_volume                   *)

VolumeDone(fn) == volumeCall.pc = "done" /\ volumeCall.fn = fn

VolumeRaised(fn, type) ==
    /\ VolumeDone(fn)
    /\ volumeCall.outcome.kind = "raise"
    /\ volumeCall.outcome.type = type

HasDiskName ==
    /\ "gcePersistentDisk" \in DOMAIN volume.spec
    /\ "pdName" \in DOMAIN volume.spec["gcePersistentDisk"]

\* C12 as stated: get_disk_identifier raises UnsupportedVolume exactly when the
\* zone label is absent, whatever the other fields hold, and with the label
\* present it returns the disk name and the label value.
C12_UnsupportedIffZoneAbsent ==
    VolumeDone("get_disk_identifier") =>
        /\ VolumeRaised("get_disk_identifier", "UnsupportedVolume")
              <=> ZoneLabel \notin DOMAIN volume.labels
        /\ ZoneLabel \in DOMAIN volume.labels
              => /\ volumeCall.outcome.kind = "return"
                 /\ volumeCall.outcome.value.zone = volume.labels[ZoneLabel]

\* C12 amended: for a volume that holds the disk name field get_disk_identifier
\* raises UnsupportedVolume exactly when the zone label is absent or empty,
\* whatever the other labels and annotations hold, and otherwise returns the
\* disk name with the label value; for a volume without the disk name field it
\* raises KeyError whatever the zone label is.
C12_UnsupportedIffZoneAbsentOrEmpty ==
    VolumeDone("get_disk_identifier") =>
        IF HasDiskName
        THEN /\ VolumeRaised("get_disk_identifier", "UnsupportedVolume")
                   <=> (\/ ZoneLabel \notin DOMAIN volume.labels
                        \/ volume.labels[ZoneLabel] = "")
             /\ ~VolumeRaised("get_disk_identifier", "UnsupportedVolume")
                   => /\ volumeCall.outcome.kind = "return"
                      /\ volumeCall.outcome.value =
                            [name |-> volume.spec["gcePersistentDisk"]["pdName"],
                             zone |-> volume.labels[ZoneLabel]]
        ELSE VolumeRaised("get_disk_identifier", "KeyError")

\* C12 witness: a volume with a disk name, a region label and no zone label is
\* refused with UnsupportedVolume.
C12_Witness ==
    /\ VolumeRaised("get_disk_identifier", "UnsupportedVolume")
    /\ HasDiskName
    /\ ZoneLabel \notin DOMAIN volume.labels
    /\ RegionLabel \in DOMAIN volume.labels

\* C17: supports_volume returns true exactly when the provisioner annotation is
\* 'kubernetes.io/gce-pd'; for every other value and without the annotation it
\* returns false, and it never raises.
C17_SupportsIffExactProvisioner ==
    VolumeDone("supports_volume") =>
        /\ volumeCall.outcome.kind = "return"
        /\ volumeCall.outcome.value \in BOOLEAN
        /\ volumeCall.outcome.value
              <=> (/\ ProvisionerAnnotation \in DOMAIN volume.annotations
                   /\ volume.annotations[ProvisionerAnnotation] = "kubernetes.io/gce-pd")

\* C17 witness: a provisioner that differs from the expected one only in case
\* is answered with false.
C17_Witness ==
    /\ VolumeDone("supports_volume")
    /\ ProvisionerAnnotation \in DOMAIN volume.annotations
    /\ volume.annotations[ProvisionerAnnotation] = "Kubernetes.io/GCE-PD"
    /\ volumeCall.outcome.value = FALSE

----------------------------------------------------------------------------
(* Properties of create_snapshot                                           *)

CreateDone == call.fn = "create_snapshot" /\ call.pc \in {"returned", "raised"}

CreateReturned == call.fn = "create_snapshot" /\ call.pc = "returned"

\* The one request create_snapshot is to send for its arguments.
CreateRequestOf(a) ==
    Request("disks.createSnapshot", a.disk.zone, a.disk.name,
            [name |-> a.snapshot_name, description |-> a.snapshot_description])

\* The handle names the requested snapshot, the zone of the disk, and a zone
\* operation the remote service registered for that snapshot in that zone.
HandleOfRequest ==
    /\ call.returned.snapshot_name = call.arg.snapshot_name
    /\ call.returned.zone = call.arg.disk.zone
    /\ call.returned.operation_name \in OperationNames
    /\ operations[call.returned.operation_name] # NoOperation
    /\ operations[call.returned.operation_name].target = call.arg.snapshot_name
    /\ operations[call.returned.operation_name].zone = call.arg.disk.zone

\* C14: create_snapshot issues exactly one CreateSnapshot request for its
\* arguments and nothing else, and returns, without reading the operation, the
\* handle of the requested name, the zone of the disk and the operation the
\* request returned.  The failures the claim leaves to the error handling are
\* spelled out: a call whose get_gcloud raises issues no request, and a call
\* whose request fails raises that error.
C14_CreateWithClientIssuesOneRequest ==
    CreateDone =>
        /\ call.client => call.requests = <<CreateRequestOf(call.arg)>>
        /\ ~call.client => call.requests = <<>> /\ call.pc = "raised"
        /\ call.pc = "returned" => call.client /\ HandleOfRequest
        /\ call.pc = "raised" => call.raised.type \in {"AuthError", "HttpError"}
        /\ call.operation_status = "unfetched"

\* C14 witness: create_snapshot has returned the handle while the operation it
\* names is not DONE.
C14_Witness ==
    /\ CreateReturned
    /\ call.requests = <<CreateRequestOf(call.arg)>>
    /\ operations[call.returned.operation_name].status # "DONE"

----------------------------------------------------------------------------
(* Properties of set_snapshot_labels                                       *)

LabelsCall == call.fn = "set_snapshot_labels"

LabelsTarget == call.arg.snapshot_identifier.snapshot_name

\* The step that reads the snapshot, and the step that writes the labels.
LabelsReadStep ==
    LabelsCall /\ call.pc = "labels.snapshots.get" /\ call'.pc # call.pc

LabelsWriteStep ==
    LabelsCall /\ call.pc = "snapshots.setLabels" /\ call'.pc # call.pc

\* The requests of a set_snapshot_labels call are the GetSnapshot read and,
\* only after it, the SetLabels write, which carries the labels of the caller
\* and the fingerprint the read returned.
LabelsReadBeforeWrite ==
    LabelsCall =>
        /\ Len(call.requests) <= 2
        /\ Len(call.requests) >= 1 =>
              call.requests[1] = Request("snapshots.get", "", LabelsTarget, NoBody)
        /\ Len(call.requests) = 2 =>
              /\ call.labelFingerprint # NoFingerprint
              /\ call.requests[2] =
                    Request("snapshots.setLabels", "", LabelsTarget,
                            [labels |-> call.arg.labels,
                             labelFingerprint |-> call.labelFingerprint])

\* C13: set_snapshot_labels reads the snapshot before it writes the labels and
\* submits exactly the labelFingerprint that read returned; when the snapshot
\* got another fingerprint between the read and the write, the write is
\* rejected, the call raises and the labels of the other writer stay.
C13_ReadThenWriteWithReadFingerprint ==
    /\ []LabelsReadBeforeWrite
    /\ [][/\ LabelsReadStep /\ call'.pc = "snapshots.setLabels"
             => call'.labelFingerprint = labelling[LabelsTarget].labelFingerprint
          /\ LabelsWriteStep
                /\ call.labelFingerprint # labelling[LabelsTarget].labelFingerprint
             => /\ call'.pc = "raised"
                /\ call'.raised.type = "HttpError"
                /\ labelling' = labelling]_vars

\* C13 witness: the write of a call that read the fingerprint before another
\* writer set its labels was rejected, and the labels of the other writer are
\* in place.
C13_Witness ==
    /\ LabelsCall
    /\ call.pc = "raised"
    /\ call.raised = [type |-> "HttpError", arg |-> "412"]
    /\ Len(call.requests) = 2
    /\ labelling[LabelsTarget].labels \in OtherLabels
    /\ labelling[LabelsTarget].labelFingerprint # call.labelFingerprint

----------------------------------------------------------------------------
(* Properties of delete_snapshot                                           *)

DeleteCall == call.fn = "delete_snapshot"

DeleteRequestOf(name) == Request("snapshots.delete", "", name, NoBody)

\* The step that sends the delete request.
DeleteStep == DeleteCall /\ call.pc = "snapshots.delete" /\ call'.pc # call.pc

\* C15: delete_snapshot issues one DeleteSnapshot request, by the name of the
\* snapshot, and nothing else; a delete that returns has removed a snapshot
\* that existed, and a delete of a snapshot that is not there any more raises
\* the HttpError of the request and changes nothing.
C15_DeleteByNameNotIdempotent ==
    /\ [](DeleteCall =>
            /\ call.requests \in {<<>>, <<DeleteRequestOf(call.arg.name)>>}
            /\ call.pc = "returned" =>
                  /\ call.requests = <<DeleteRequestOf(call.arg.name)>>
                  /\ call.arg.name \in deleted)
    /\ [][DeleteStep =>
            /\ call'.requests = <<DeleteRequestOf(call.arg.name)>>
            /\ call'.pc = "returned" =>
                  /\ snapshots[call.arg.name] # Absent
                  /\ snapshots'[call.arg.name] = Absent
            /\ snapshots[call.arg.name] = Absent =>
                  /\ call'.pc = "raised"
                  /\ call'.raised.type = "HttpError"
                  /\ UNCHANGED <<snapshots, deleted>>]_vars

\* C15 witness: the delete of a snapshot that an earlier delete_snapshot call
\* removed has raised the not-found error of its one request.
C15_Witness ==
    /\ DeleteCall
    /\ call.arg.name \in deleted
    /\ snapshots[call.arg.name] = Absent
    /\ call.pc = "raised"
    /\ call.raised = [type |-> "HttpError", arg |-> "404"]
    /\ call.requests = <<DeleteRequestOf(call.arg.name)>>

----------------------------------------------------------------------------
(* No operation retries.                                                   *)

\* The remote requests a function issues when nothing fails, in order.
RequestPlan(fn) ==
    CASE fn = "load_snapshots" -> <<"snapshots.list">>
      [] fn = "create_snapshot" -> <<"disks.createSnapshot">>
      [] fn = "get_snapshot_status" -> <<"zoneOperations.get", "snapshots.get">>
      [] fn = "set_snapshot_labels" -> <<"snapshots.get", "snapshots.setLabels">>
      [] fn = "delete_snapshot" -> <<"snapshots.delete">>
      [] OTHER -> <<>>

\* The requests issued so far are the first requests of the plan, once each.
RequestsFollowPlan ==
    /\ Len(call.requests) <= Len(RequestPlan(call.fn))
    /\ \A i \in DOMAIN call.requests : call.requests[i].api = RequestPlan(call.fn)[i]

\* An invocation that raised a transport or authentication error stopped
\* there: a failed get_gcloud leaves no request, a failed operation read no
\* snapshot read, a failed snapshot read no label write.
StoppedAtFailure ==
    call.pc = "raised" /\ call.raised.type \in {"HttpError", "AuthError"} =>
        /\ ~call.client => call.requests = <<>>
        /\ call.fn = "get_snapshot_status" /\ call.operation_status = "unfetched"
              => Issued(call, "snapshots.get") = 0
        /\ call.fn = "set_snapshot_labels" /\ call.labelFingerprint = NoFingerprint
              => Issued(call, "snapshots.setLabels") = 0

\* C16: no operation retries: within one invocation each remote request is
\* issued at most once, in the order of the function, and an invocation that
\* has raised issues no further request and keeps its error until the caller
\* starts the next invocation.
C16_NoRetryAndStopAtFailure ==
    /\ [](RequestsFollowPlan /\ StoppedAtFailure)
    /\ [][call.pc = "raised" =>
             \/ call' = call
             \/ call'.pc = "get_gcloud" /\ call'.requests = <<>>]_vars

\* C16 witness: a poll whose operation read failed has raised the HttpError
\* with that read as its only request.
C16_Witness ==
    /\ call.fn = "get_snapshot_status"
    /\ call.pc = "raised"
    /\ call.raised.type = "HttpError"
    /\ call.operation_status = "unfetched"
    /\ Len(call.requests) = 1
    /\ call.requests[1].api = "zoneOperations.get"

----------------------------------------------------------------------------
(* Properties of load_snapshots                                            *)

ListDone == call.fn = "load_snapshots" /\ call.pc \in {"returned", "raised"}

\* The items of the response the call received.
ResponseItems == IF "items" \in DOMAIN call.resp THEN call.resp["items"] ELSE <<>>

\* The filter expression 'labels.k eq v' of a pair.
ExprOfPair(pair) == <<"labels.", pair.key, " eq ", pair.value>>

\* C18: for a filter of exactly one pair {k: v} the expression is
\* 'labels.k eq v'; a list call with a filter sends exactly one request, whose
\* expression is built from one pair of the filter, and returns one Snapshot
\* per item of the response, in the order of the response, with the zone and
\* the disk name taken from the item's sourceDisk and the creation time in UTC.
C18_OneFilterExprAndItemsInOrder ==
    ListDone /\ call.client /\ Len(call.arg) >= 1 =>
        /\ Len(call.arg) = 1 =>
              SnapshotListFilterExpr(call.arg).value = ExprOfPair(call.arg[1])
        /\ Len(call.requests) = 1
        /\ call.requests[1].api = "snapshots.list"
        /\ \E i \in DOMAIN call.arg :
              call.requests[1].body = [filter |-> ExprOfPair(call.arg[i])]
        /\ call.pc = "returned" =>
              /\ Len(call.returned) = Len(ResponseItems)
              /\ \A i \in DOMAIN ResponseItems :
                    LET item == ResponseItems[i]
                        n == Len(item.sourceDisk)
                    IN  /\ call.returned[i].name = item.name
                        /\ call.returned[i].disk =
                              [zone |-> item.sourceDisk[n - 2],
                               name |-> item.sourceDisk[n]]
                        /\ call.returned[i].created_at.offset = 0
                        /\ call.returned[i].created_at.day * 24
                              + call.returned[i].created_at.hour
                           = item.creationTimestamp.day * 24
                              + item.creationTimestamp.hour
                              - item.creationTimestamp.offset

\* C18 witness: a list call with a one-pair filter has returned two snapshots
\* in the order of the response, snap-b before snap-a.
C18_Witness ==
    /\ ListDone
    /\ call.pc = "returned"
    /\ Len(call.arg) = 1
    /\ Len(ResponseItems) = 2
    /\ ResponseItems[1].name = "snap-b"
    /\ call.returned[1].name = "snap-b"
    /\ call.returned[2].name = "snap-a"

----------------------------------------------------------------------------
(* Liveness of create and poll                                             *)

\* The caller creates one snapshot and, once it holds the handle, keeps
\* polling it; the remote service advances the operation and changes the
\* snapshot on its own.
CreateOnce == handles = {} /\ CreateSnapshotCall

NextLive ==
    \/ CreateOnce
    \/ CreateSnapshotRequest
    \/ GetSnapshotStatusCall
    \/ GetGcloud
    \/ PollGetOperation
    \/ PollGetSnapshot
    \/ OperationAdvances
    \/ SnapshotChanges

\* The caller keeps polling, and a call that has started runs to its end.
SpecLive ==
    /\ Init
    /\ [][NextLive]_vars
    /\ WF_vars(GetSnapshotStatusCall)
    /\ WF_vars(GetGcloud)
    /\ WF_vars(PollGetOperation)
    /\ WF_vars(PollGetSnapshot)

\* A poll ended with the failure of get_gcloud or of a remote request.
PollFailed == PollRaised("HttpError") \/ PollRaised("AuthError")

\* The operation of the handle is DONE and its snapshot has the status.
Settled(status) ==
    \E h \in handles :
        /\ operations[h.operation_name].status = "DONE"
        /\ snapshots[h.snapshot_name] = status

\* C19: when the caller keeps polling the handle create_snapshot returned, no
\* poll fails, and from some point on the operation is DONE and the snapshot
\* stays READY, polls return COMPLETE again and again; when the snapshot stays
\* FAILED instead, polls raise SnapshotCreateError again and again; and a poll
\* returns COMPLETE only after it has read the status READY from the snapshot.
C19_PollingReachesTerminalAnswer ==
    /\ ([]~PollFailed /\ <>[]Settled("READY")) => []<>PollReturned("COMPLETE")
    /\ ([]~PollFailed /\ <>[]Settled("FAILED")) => []<>PollRaised("SnapshotCreateError")
    /\ [](PollReturned("COMPLETE") =>
             /\ call.operation_status = "DONE"
             /\ call.snapshot_status = "READY")

\* C19 witness: a poll of the one handle, after an earlier poll of it had seen
\* the operation DONE, has returned COMPLETE for the READY snapshot.
C19_Witness ==
    /\ PollReturned("COMPLETE")
    /\ call.afterDone
    /\ Cardinality(handles) = 1
    /\ Settled("READY")

====
